---------------------------- MODULE Spec2Model ----------------------------
(***************************************************************************)
(* motile: compilation of a track graph into an ILP.                       *)
(*                                                                         *)
(*   - NodeAppear.instantiate / instantiate_constraints                    *)
(*       (src/motile/variables/node_appear.py)                             *)
(*   - NodeSelection.__init__ / apply                                      *)
(*       (src/motile/costs/node_selection.py)                              *)
(*   - draw_track_graph / draw_solution (src/motile/plot.py)               *)
(*                                                                         *)
(* Numbers that the code handles as floats and that take part in products  *)
(* (weights, node attributes, the literal 1.0) are fixed-point integers    *)
(* counted in halves; an objective coefficient is a sum of products and is *)
(* counted in quarters.  Constraint coefficients are whole numbers.        *)
(***************************************************************************)
EXTENDS Integers, Sequences, FiniteSets, TLC

VARIABLES
    numNodes,      \* the graph has the nodes 1..numNodes, in iteration order
    edges,         \* solver.graph.edges: sequence of <<u, v>>, u before v
    attrs,         \* solver.graph.nodes[node]: attribute name -> value
    variables,     \* solver.variables: module type -> (element -> column)
    numVariables,  \* number of columns allocated so far
    constraints,   \* constraints added to the solver, in emission order
    objective,     \* column -> accumulated objective coefficient
    applied,       \* the cost modules whose apply() has run, in order
    error,         \* "none", or the exception that aborted the last call
    pc,            \* position of the compilation driver
    call,          \* arguments of the last plot call
    figure         \* what the last plot call returned

vars == <<numNodes, edges, attrs, variables, numVariables, constraints,
          objective, applied, error, pc, call, figure>>

-----------------------------------------------------------------------------
(* Bounds *)

MaxNodes == 4
MaxCostNodes == 3
MaxApplies == 2

-----------------------------------------------------------------------------
(* Generic helpers *)

None == "None"

RECURSIVE SumOver(_, _)
SumOver(S, f) ==
    IF S = {} THEN 0
    ELSE LET x == CHOOSE y \in S : TRUE
         IN  f[x] + SumOver(S \ {x}, f)

Range(s) == {s[i] : i \in DOMAIN s}

EmptyMap == [x \in {} |-> 0]

-----------------------------------------------------------------------------
(* The track graph *)

Nodes == 1..numNodes

\* every candidate edge <<u, v>> with u < v <= n, in lexicographic order
RECURSIVE PairsFrom(_, _, _)
PairsFrom(u, v, n) ==
    IF u >= n THEN <<>>
    ELSE IF v > n THEN PairsFrom(u + 1, u + 2, n)
    ELSE <<(<<u, v>>)>> \o PairsFrom(u, v + 1, n)

AllEdges(n) == PairsFrom(1, 2, n)

EdgeSeqOf(n, S) == SelectSeq(AllEdges(n), LAMBDA e : e \in S)

ChainEdges(n) == {<<u, u + 1>> : u \in 1..(n - 1)}

\* solver.graph.prev_edges[node]
PrevEdges(node) == SelectSeq(edges, LAMBDA e : e[2] = node)


-----------------------------------------------------------------------------
(* The solver's registry of indicator variables *)

ModuleOrder == <<"NodeSelected", "EdgeSelected", "NodeAppear">>

IndexOf(seq, k) == CHOOSE i \in DOMAIN seq : seq[i] = k

\* NodeAppear.instantiate: one appear indicator per node of the graph
NodeAppearInstantiate == [i \in 1..numNodes |-> i]

\* the elements a variable module declares, in the order it produces them
Instantiate(cls) ==
    CASE cls = "NodeSelected" -> [i \in 1..numNodes |-> i]
      [] cls = "EdgeSelected" -> edges
      [] cls = "NodeAppear"   -> NodeAppearInstantiate

\* each declared element receives one fresh column, in production order
AllocateVariables(reg, first, cls, keys) ==
    (cls :> [k \in Range(keys) |-> first + IndexOf(keys, k) - 1]) @@ reg

\* solver.get_variables(cls): element -> column
GetVariables(reg, cls) == reg[cls]

\* ilpy.LinearConstraint and its setters
LinearConstraint == [coefs |-> EmptyMap, relation |-> "LessEqual", value |-> 0]

SetCoefficient(c, col, v) == [c EXCEPT !.coefs = (col :> v) @@ c.coefs]

SetRelation(c, r) == [c EXCEPT !.relation = r]

SetValue(c, v) == [c EXCEPT !.value = v]

-----------------------------------------------------------------------------
(* NodeAppear.instantiate_constraints *)

\* variant: the incoming edges enter with +1.0 instead of -1.0
RECURSIVE SetPrevSelected_Plus(_, _, _, _)
SetPrevSelected_Plus(c, edge_indicators, prev_edges, i) ==
    IF i > Len(prev_edges) THEN c
    ELSE SetPrevSelected_Plus(SetCoefficient(c, edge_indicators[prev_edges[i]], 1),
                              edge_indicators, prev_edges, i + 1)

\* "for prev_edge in prev_edges: constraint.set_coefficient(edge, -1.0)"
RECURSIVE SetPrevSelected(_, _, _, _)
SetPrevSelected(c, edge_indicators, prev_edges, i) ==
    IF i > Len(prev_edges) THEN c
    ELSE SetPrevSelected(SetCoefficient(c, edge_indicators[prev_edges[i]], -1),
                         edge_indicators, prev_edges, i + 1)

\* variant: the appear indicator enters the equality with +1.0
NodeAppearSpecialCase_PlusAppear(reg, node) ==
    LET appear_indicators == GetVariables(reg, "NodeAppear")
        node_indicators   == GetVariables(reg, "NodeSelected")
        c0 == LinearConstraint
        c1 == SetCoefficient(c0, node_indicators[node], 1)
        c2 == SetCoefficient(c1, appear_indicators[node], 1)
        c3 == SetRelation(c2, "Equal")
    IN  SetValue(c3, 0)

\* num_prev_edges == 0: appear indicator equals selection indicator
NodeAppearSpecialCase(reg, node) ==
    LET appear_indicators == GetVariables(reg, "NodeAppear")
        node_indicators   == GetVariables(reg, "NodeSelected")
        c0 == LinearConstraint
        c1 == SetCoefficient(c0, node_indicators[node], 1)
        c2 == SetCoefficient(c1, appear_indicators[node], -1)
        c3 == SetRelation(c2, "Equal")
    IN  SetValue(c3, 0)

\* variant: the selection indicator enters with 1.0 instead of num_prev_edges
NodeAppearConstraint1_UnitSelected(reg, node) ==
    LET appear_indicators == GetVariables(reg, "NodeAppear")
        node_indicators   == GetVariables(reg, "NodeSelected")
        edge_indicators   == GetVariables(reg, "EdgeSelected")
        prev_edges        == PrevEdges(node)
        num_prev_edges    == Len(prev_edges)
        c0 == LinearConstraint
        c1 == SetCoefficient(c0, node_indicators[node], 1)
        c2 == SetPrevSelected(c1, edge_indicators, prev_edges, 1)
        c3 == SetCoefficient(c2, appear_indicators[node], -1)
        c4 == SetRelation(c3, "LessEqual")
    IN  SetValue(c4, num_prev_edges - 1)

\* (1) s - appear <= num_prev - 1
NodeAppearConstraint1(reg, node) ==
    LET appear_indicators == GetVariables(reg, "NodeAppear")
        node_indicators   == GetVariables(reg, "NodeSelected")
        edge_indicators   == GetVariables(reg, "EdgeSelected")
        prev_edges        == PrevEdges(node)
        num_prev_edges    == Len(prev_edges)
        c0 == LinearConstraint
        c1 == SetCoefficient(c0, node_indicators[node], num_prev_edges)
        c2 == SetPrevSelected(c1, edge_indicators, prev_edges, 1)
        c3 == SetCoefficient(c2, appear_indicators[node], -1)
        c4 == SetRelation(c3, "LessEqual")
    IN  SetValue(c4, num_prev_edges - 1)

\* variant: the appear indicator enters with -1.0 instead of -num_prev_edges
NodeAppearConstraint2_UnitAppear(reg, node) ==
    LET appear_indicators == GetVariables(reg, "NodeAppear")
        node_indicators   == GetVariables(reg, "NodeSelected")
        edge_indicators   == GetVariables(reg, "EdgeSelected")
        prev_edges        == PrevEdges(node)
        num_prev_edges    == Len(prev_edges)
        c0 == LinearConstraint
        c1 == SetCoefficient(c0, node_indicators[node], num_prev_edges)
        c2 == SetPrevSelected(c1, edge_indicators, prev_edges, 1)
        c3 == SetCoefficient(c2, appear_indicators[node], -1)
        c4 == SetRelation(c3, "GreaterEqual")
    IN  SetValue(c4, 0)

\* (2) s - appear * num_prev >= 0
NodeAppearConstraint2(reg, node) ==
    LET appear_indicators == GetVariables(reg, "NodeAppear")
        node_indicators   == GetVariables(reg, "NodeSelected")
        edge_indicators   == GetVariables(reg, "EdgeSelected")
        prev_edges        == PrevEdges(node)
        num_prev_edges    == Len(prev_edges)
        c0 == LinearConstraint
        c1 == SetCoefficient(c0, node_indicators[node], num_prev_edges)
        c2 == SetPrevSelected(c1, edge_indicators, prev_edges, 1)
        c3 == SetCoefficient(c2, appear_indicators[node], -num_prev_edges)
        c4 == SetRelation(c3, "GreaterEqual")
    IN  SetValue(c4, 0)

\* variant: constraint2 is built but never yielded
NodeAppearYield_MissingSecond(reg, node) ==
    IF Len(PrevEdges(node)) = 0
    THEN <<NodeAppearSpecialCase(reg, node)>>
    ELSE <<NodeAppearConstraint1(reg, node)>>

\* the body of "for node in solver.graph.nodes": what one node yields
NodeAppearYield(reg, node) ==
    IF Len(PrevEdges(node)) = 0
    THEN <<NodeAppearSpecialCase(reg, node)>>
    ELSE <<NodeAppearConstraint1(reg, node), NodeAppearConstraint2(reg, node)>>

\* the generator, consumed to its end, from the i-th node on
RECURSIVE NodeAppearInstantiateConstraints(_, _)
NodeAppearInstantiateConstraints(reg, i) ==
    IF i > numNodes THEN <<>>
    ELSE NodeAppearYield(reg, i) \o NodeAppearInstantiateConstraints(reg, i + 1)

\* the constraints a variable module declares
InstantiateConstraints(reg, cls) ==
    IF cls = "NodeAppear" THEN NodeAppearInstantiateConstraints(reg, 1) ELSE <<>>

-----------------------------------------------------------------------------
(* The compilation driver: variable modules in declared order *)

NextPc(cls) ==
    CASE cls = "NodeSelected" -> "EdgeSelected"
      [] cls = "EdgeSelected" -> "NodeAppear"
      [] cls = "NodeAppear"   -> "costs"

AddVariables(cls) ==
    /\ pc = cls
    /\ error = "none"
    /\ LET keys == Instantiate(cls)
           reg  == AllocateVariables(variables, numVariables, cls, keys)
           last == numVariables + Len(keys)
       IN  /\ variables' = reg
           /\ numVariables' = last
           /\ objective' = [col \in 0..(last - 1) |->
                               IF col < numVariables THEN objective[col] ELSE 0]
           /\ constraints' = constraints \o InstantiateConstraints(reg, cls)
    /\ pc' = NextPc(cls)
    /\ UNCHANGED <<numNodes, edges, attrs, applied, error, call, figure>>

-----------------------------------------------------------------------------
(* Specification of the constraint derivation *)

One == 2

AllCosts(n) == [v \in 1..n |-> [a \in {"costs"} |-> One]]

NoCall == [fn |-> "none"]

NoFigure == [kind |-> "none"]

EmptyRegistry ==
    /\ variables = EmptyMap
    /\ numVariables = 0
    /\ constraints = <<>>
    /\ objective = EmptyMap
    /\ applied = <<>>
    /\ error = "none"
    /\ pc = "NodeSelected"
    /\ call = NoCall
    /\ figure = NoFigure

Init ==
    /\ numNodes \in 1..MaxNodes
    /\ edges \in {EdgeSeqOf(numNodes, S) : S \in SUBSET Range(AllEdges(numNodes))}
    /\ attrs = AllCosts(numNodes)
    /\ EmptyRegistry

Next ==
    \/ AddVariables("NodeSelected")
    \/ AddVariables("EdgeSelected")
    \/ AddVariables("NodeAppear")

Spec == Init /\ [][Next]_vars

-----------------------------------------------------------------------------
(* NodeSelection costs *)

\* Weight(initial_value)
Weight(v) == [initial_value |-> v]

\* NodeSelection.__init__(weight, attribute, constant)
NodeSelection(weight, attribute, constant) ==
    [weight |-> Weight(weight), constant |-> Weight(constant),
     attribute |-> attribute]

\* variant: the coefficient is overwritten instead of accumulated
AddVariableCost_Overwrite(obj, index, value, weight) ==
    [obj EXCEPT ![index] = value * weight.initial_value]

\* solver.add_variable_cost(index, value, weight): accumulates value * weight
\* into the objective coefficient of the column
AddVariableCost(obj, index, value, weight) ==
    [obj EXCEPT ![index] = @ + value * weight.initial_value]

\* node_variables.items(): <<element, column>> in insertion (= column) order
Items(node_variables) ==
    LET first == CHOOSE c \in Range(node_variables) :
                     \A d \in Range(node_variables) : c <= d
    IN  [i \in 1..Cardinality(DOMAIN node_variables) |->
            LET k == CHOOSE e \in DOMAIN node_variables :
                         node_variables[e] = first + i - 1
            IN  <<k, node_variables[k]>>]

\* variant: the constant cost is scaled by self.weight
RECURSIVE NodeSelectionApplyLoop_ConstantUsesWeight(_, _, _, _)
NodeSelectionApplyLoop_ConstantUsesWeight(obj, self, items, i) ==
    IF i > Len(items) THEN [objective |-> obj, error |-> "none"]
    ELSE LET node  == items[i][1]
             index == items[i][2]
         IN  IF self.attribute \notin DOMAIN attrs[node]
             THEN [objective |-> obj, error |-> "KeyError"]
             ELSE LET o1 == AddVariableCost(obj, index,
                                attrs[node][self.attribute], self.weight)
                      o2 == AddVariableCost(o1, index, One, self.weight)
                  IN  NodeSelectionApplyLoop_ConstantUsesWeight(o2, self, items, i + 1)

\* variant: a missing attribute is remembered, the remaining nodes are still
\* processed and the KeyError is raised after the loop
RECURSIVE NodeSelectionApplyLoop_RaiseAtEnd(_, _, _, _)
NodeSelectionApplyLoop_RaiseAtEnd(obj, self, items, i) ==
    IF i > Len(items)
    THEN [objective |-> obj,
          error |-> IF \E j \in DOMAIN items :
                          self.attribute \notin DOMAIN attrs[items[j][1]]
                    THEN "KeyError" ELSE "none"]
    ELSE LET node  == items[i][1]
             index == items[i][2]
         IN  IF self.attribute \notin DOMAIN attrs[node]
             THEN NodeSelectionApplyLoop_RaiseAtEnd(obj, self, items, i + 1)
             ELSE LET o1 == AddVariableCost(obj, index,
                                attrs[node][self.attribute], self.weight)
                      o2 == AddVariableCost(o1, index, One, self.constant)
                  IN  NodeSelectionApplyLoop_RaiseAtEnd(o2, self, items, i + 1)

\* variant: the constant cost is added before the attribute is looked up
RECURSIVE NodeSelectionApplyLoop_ConstantFirst(_, _, _, _)
NodeSelectionApplyLoop_ConstantFirst(obj, self, items, i) ==
    IF i > Len(items) THEN [objective |-> obj, error |-> "none"]
    ELSE LET node  == items[i][1]
             index == items[i][2]
             o1    == AddVariableCost(obj, index, One, self.constant)
         IN  IF self.attribute \notin DOMAIN attrs[node]
             THEN [objective |-> o1, error |-> "KeyError"]
             ELSE LET o2 == AddVariableCost(o1, index,
                                attrs[node][self.attribute], self.weight)
                  IN  NodeSelectionApplyLoop_ConstantFirst(o2, self, items, i + 1)

\* "for node, index in node_variables.items()" from the i-th item on; the
\* attribute lookup of the first call raises KeyError before anything is
\* added for that node
RECURSIVE NodeSelectionApplyLoop(_, _, _, _)
NodeSelectionApplyLoop(obj, self, items, i) ==
    IF i > Len(items) THEN [objective |-> obj, error |-> "none"]
    ELSE LET node  == items[i][1]
             index == items[i][2]
         IN  IF self.attribute \notin DOMAIN attrs[node]
             THEN [objective |-> obj, error |-> "KeyError"]
             ELSE LET o1 == AddVariableCost(obj, index,
                                attrs[node][self.attribute], self.weight)
                      o2 == AddVariableCost(o1, index, One, self.constant)
                  IN  NodeSelectionApplyLoop(o2, self, items, i + 1)

\* NodeSelection.apply(solver)
NodeSelectionApply(obj, reg, self) ==
    NodeSelectionApplyLoop(obj, self, Items(GetVariables(reg, "NodeSelected")), 1)

\* the driver runs one cost module; an exception aborts the compilation
ApplyCosts(self) ==
    /\ pc = "costs"
    /\ error = "none"
    /\ Len(applied) < MaxApplies
    /\ LET r == NodeSelectionApply(objective, variables, self)
       IN  /\ objective' = r.objective
           /\ error' = r.error
           /\ pc' = IF r.error = "none" THEN "costs" ELSE "aborted"
    /\ applied' = Append(applied, self)
    /\ UNCHANGED <<numNodes, edges, attrs, variables, numVariables,
                   constraints, call, figure>>

-----------------------------------------------------------------------------
(* Specification of the cost accumulation *)

WeightValues == {4, -2}

ConstantValues == {0, 1}

AttributeNames == {"costs", "score"}

CostModules ==
    {NodeSelection(w, a, c) : w \in WeightValues, a \in AttributeNames,
                              c \in ConstantValues}

AttrMaps ==
    { [a \in {} |-> 0],
      [a \in {"costs"} |-> One],
      [a \in {"costs", "score"} |-> IF a = "costs" THEN 3 ELSE One],
      [a \in {"score"} |-> 6] }

InitCosts ==
    /\ numNodes \in 1..MaxCostNodes
    /\ edges \in {EdgeSeqOf(numNodes, S) : S \in SUBSET ChainEdges(numNodes)}
    /\ attrs \in [1..numNodes -> AttrMaps]
    /\ EmptyRegistry

NextCosts ==
    \/ AddVariables("NodeSelected")
    \/ AddVariables("EdgeSelected")
    \/ AddVariables("NodeAppear")
    \/ \E self \in CostModules : ApplyCosts(self)

SpecCosts == InitCosts /\ [][NextCosts]_vars

-----------------------------------------------------------------------------
(* Plotting: draw_track_graph and draw_solution *)

MaxPlotNodes == 2

\* dict.get(name, default)
Get(d, name, default) == IF name \in DOMAIN d THEN d[name] ELSE default

\* str(value)
Str(v) == <<"str", v>>

\* a user-supplied callable applied to a node or an edge
CallFunc(f, element) == <<f, element>>

\* "try: node_func, edge_func = func / except TypeError: both = func"
NodeFuncOf(func) == IF func = "pair" THEN "pair.node" ELSE func

EdgeFuncOf(func) == IF func = "pair" THEN "pair.edge" ELSE func

\* lines 134-254: the figure, once the options are resolved
TrackGraphFigure(a) ==
    LET position_attribute ==
            IF a.position_attribute = None THEN "x" ELSE a.position_attribute
        position(node) ==
            IF a.position_func = None
            THEN attrs[node][position_attribute]
            ELSE CallFunc(a.position_func, node)
        alpha_node(node) ==
            IF a.alpha_attribute # None THEN Get(attrs[node], a.alpha_attribute, One)
            ELSE IF a.alpha_func = None THEN One
            ELSE CallFunc(NodeFuncOf(a.alpha_func), node)
        alpha_edge(edge) ==
            IF a.alpha_attribute # None THEN One
            ELSE IF a.alpha_func = None THEN One
            ELSE CallFunc(EdgeFuncOf(a.alpha_func), edge)
        label_node(node) ==
            IF a.label_attribute # None THEN Get(attrs[node], a.label_attribute, "")
            ELSE IF a.label_func = None THEN Str(node)
            ELSE CallFunc(NodeFuncOf(a.label_func), node)
        label_edge(edge) ==
            IF a.label_attribute # None THEN ""
            ELSE IF a.label_func = None THEN Str(edge)
            ELSE CallFunc(EdgeFuncOf(a.label_func), edge)
    IN  [kind           |-> "figure",
         node_positions |-> [n \in Nodes |-> <<n, position(n)>>],
         node_alphas    |-> [n \in Nodes |-> alpha_node(n)],
         edge_alphas    |-> [i \in DOMAIN edges |-> alpha_edge(edges[i])],
         node_labels    |-> [n \in Nodes |-> Str(label_node(n))],
         edge_labels    |-> [i \in DOMAIN edges |-> Str(label_edge(edges[i]))],
         annotations    |-> 2 * Len(edges)]

\* variant: the label options are not checked against each other
DrawTrackGraph_NoLabelCheck(a) ==
    IF a.position_attribute # None /\ a.position_func # None
    THEN [error |-> "RuntimeError", figure |-> NoFigure]
    ELSE IF a.alpha_attribute # None /\ a.alpha_func # None
    THEN [error |-> "RuntimeError", figure |-> NoFigure]
    ELSE IF /\ a.position_func = None
            /\ \E n \in Nodes :
                  (IF a.position_attribute = None THEN "x"
                   ELSE a.position_attribute) \notin DOMAIN attrs[n]
    THEN [error |-> "KeyError", figure |-> NoFigure]
    ELSE [error |-> "none", figure |-> TrackGraphFigure(a)]

\* draw_track_graph(graph, **a): the exception raised, or the figure returned
DrawTrackGraph(a) ==
    IF a.position_attribute # None /\ a.position_func # None
    THEN [error |-> "RuntimeError", figure |-> NoFigure]
    ELSE IF a.alpha_attribute # None /\ a.alpha_func # None
    THEN [error |-> "RuntimeError", figure |-> NoFigure]
    ELSE IF a.label_attribute # None /\ a.label_func # None
    THEN [error |-> "RuntimeError", figure |-> NoFigure]
    ELSE IF /\ a.position_func = None
            /\ \E n \in Nodes :
                  (IF a.position_attribute = None THEN "x"
                   ELSE a.position_attribute) \notin DOMAIN attrs[n]
    THEN [error |-> "KeyError", figure |-> NoFigure]
    ELSE [error |-> "none", figure |-> TrackGraphFigure(a)]

\* draw_solution(graph, solver, **kwargs): kwargs["alpha_func"] is replaced by
\* the pair of solution look-ups before draw_track_graph is called
DrawSolution(kwargs) == DrawTrackGraph([kwargs EXCEPT !.alpha_func = "pair"])

PlotArgs ==
    [position_attribute : {None, "x", "y"},
     position_func      : {None, "callable"},
     alpha_attribute    : {None, "score"},
     alpha_func         : {None, "callable", "pair"},
     label_attribute    : {None, "score"},
     label_func         : {None, "callable", "pair"}]

CallDrawTrackGraph(a) ==
    /\ pc = "plot"
    /\ LET r == DrawTrackGraph(a)
       IN  /\ error' = r.error
           /\ figure' = r.figure
    /\ call' = [fn |-> "draw_track_graph", args |-> a]
    /\ pc' = "plotted"
    /\ UNCHANGED <<numNodes, edges, attrs, variables, numVariables,
                   constraints, objective, applied>>

CallDrawSolution(kwargs) ==
    /\ pc = "plot"
    /\ LET r == DrawSolution(kwargs)
       IN  /\ error' = r.error
           /\ figure' = r.figure
    /\ call' = [fn |-> "draw_solution",
                 args |-> [kwargs EXCEPT !.alpha_func = "pair"]]
    /\ pc' = "plotted"
    /\ UNCHANGED <<numNodes, edges, attrs, variables, numVariables,
                   constraints, objective, applied>>

PlotAttrMaps ==
    { [a \in {} |-> 0],
      [a \in {"x"} |-> One],
      [a \in {"x", "y", "score"} |-> IF a = "score" THEN 1 ELSE 3] }

InitPlot ==
    /\ numNodes \in 1..MaxPlotNodes
    /\ edges \in {EdgeSeqOf(numNodes, S) : S \in SUBSET ChainEdges(numNodes)}
    /\ attrs \in [1..numNodes -> PlotAttrMaps]
    /\ variables = EmptyMap
    /\ numVariables = 0
    /\ constraints = <<>>
    /\ objective = EmptyMap
    /\ applied = <<>>
    /\ error = "none"
    /\ pc = "plot"
    /\ call = NoCall
    /\ figure = NoFigure

NextPlot ==
    \/ \E a \in PlotArgs : CallDrawTrackGraph(a)
    \/ \E kwargs \in PlotArgs : CallDrawSolution(kwargs)

SpecPlot == InitPlot /\ [][NextPlot]_vars

-----------------------------------------------------------------------------
(* Properties of the track-start constraints *)

Compiled == "NodeAppear" \in DOMAIN variables

XCol(v) == variables["NodeSelected"][v]

ACol(v) == variables["NodeAppear"][v]

ECol(e) == variables["EdgeSelected"][e]

InEdges(v) == {e \in Range(edges) : e[2] = v}

FanIn(v) == Cardinality(InEdges(v))

InCols(v) == {ECol(e) : e \in InEdges(v)}

LocalCols(v) == {XCol(v), ACol(v)} \cup InCols(v)

\* the emitted constraints that mention the appear indicator of v
ConstraintsOf(v) == {i \in DOMAIN constraints : ACol(v) \in DOMAIN constraints[i].coefs}

At(sol, col) == IF col \in DOMAIN sol THEN sol[col] ELSE 0

Lhs(c, cols, sol) == SumOver(cols, [col \in cols |-> c.coefs[col] * At(sol, col)])

Satisfies(c, sol) ==
    LET lhs == Lhs(c, DOMAIN c.coefs, sol)
    IN  CASE c.relation = "Equal"        -> lhs = c.value
          [] c.relation = "LessEqual"    -> lhs <= c.value
          [] c.relation = "GreaterEqual" -> lhs >= c.value

\* binary assignments of x_v and of the indicators of v's incoming edges
XEAssignments(v) == [{XCol(v)} \cup InCols(v) -> {0, 1}]

NumSelectedIn(v, xe) == Cardinality({col \in InCols(v) : xe[col] = 1})

IsStart(v, xe) == xe[XCol(v)] = 1 /\ NumSelectedIn(v, xe) = 0

\* an incoming edge is selected although v itself is not
Dangling(v, xe) == xe[XCol(v)] = 0 /\ NumSelectedIn(v, xe) > 0

\* the binary values of a_v that v's constraints admit under xe
FeasibleAppear(v, xe) ==
    {a \in {0, 1} :
        \A i \in ConstraintsOf(v) :
            Satisfies(constraints[i], (ACol(v) :> a) @@ xe)}

\* C1 as stated: for every binary assignment of (x_v, e_1..e_k) the
\* constraints of v admit exactly one binary a_v, which is 1 iff x_v = 1 and
\* every e_i = 0.
C1_UniqueAppearEveryAssignment ==
    Compiled =>
        \A v \in Nodes : \A xe \in XEAssignments(v) :
            FeasibleAppear(v, xe) = {IF IsStart(v, xe) THEN 1 ELSE 0}

\* C1 amended: the same holds for every assignment in which no incoming
\* edge is selected into an unselected node; in the remaining assignments
\* (x_v = 0 and some e_i = 1) the constraints admit no value of a_v.
C1_UniqueAppearConsistentAssignments ==
    Compiled =>
        \A v \in Nodes : \A xe \in XEAssignments(v) :
            IF Dangling(v, xe)
            THEN FeasibleAppear(v, xe) = {}
            ELSE FeasibleAppear(v, xe) = {IF IsStart(v, xe) THEN 1 ELSE 0}

C1_Witness ==
    /\ Compiled
    /\ {FanIn(v) : v \in Nodes} = 0..3
    /\ \E v \in Nodes : \E xe, ye \in XEAssignments(v) :
          /\ FanIn(v) = 3
          /\ IsStart(v, xe) /\ FeasibleAppear(v, xe) = {1}
          /\ ye[XCol(v)] = 1 /\ NumSelectedIn(v, ye) = 2
          /\ FeasibleAppear(v, ye) = {0}

AllSatisfied(sol) == \A i \in DOMAIN constraints : Satisfies(constraints[i], sol)

IsChain == numNodes = 3 /\ Range(edges) = ChainEdges(3)

\* the assignment of the chain A=1, B=2, C=3 with edges (A,B), (B,C)
ChainAssignment(xA, xB, xC, eAB, eBC, aA, aB, aC) ==
    (XCol(1) :> xA) @@ (XCol(2) :> xB) @@ (XCol(3) :> xC) @@
    (ECol(<<1, 2>>) :> eAB) @@ (ECol(<<2, 3>>) :> eBC) @@
    (ACol(1) :> aA) @@ (ACol(2) :> aB) @@ (ACol(3) :> aC)

\* C2 as stated: on the chain A->B->C the assignment x_A=1, x_B=0, x_C=0,
\* e_AB=1, e_BC=0 satisfies all track-start constraints together with a_A=1
\* and a_B=0 (for some value of a_C).
C2_ChainOnlyAAndEdge ==
    (Compiled /\ IsChain) =>
        \E aC \in {0, 1} : AllSatisfied(ChainAssignment(1, 0, 0, 1, 0, 1, 0, aC))

\* C2 amended: on the chain, with x_A=1, x_B=0, x_C=0, e_AB=1, e_BC=0 the
\* constraint of A holds with a_A=1 but the constraints of B hold for no
\* value of a_B; the assignment that also selects B (x_B=1) satisfies all
\* track-start constraints with a_A=1, a_B=0, a_C=0.
C2_ChainAAndBAndEdge ==
    (Compiled /\ IsChain) =>
        /\ \A aB, aC \in {0, 1} :
              LET sol == ChainAssignment(1, 0, 0, 1, 0, 1, aB, aC)
              IN  /\ \A i \in ConstraintsOf(1) : Satisfies(constraints[i], sol)
                  /\ \E i \in ConstraintsOf(2) : ~Satisfies(constraints[i], sol)
        /\ AllSatisfied(ChainAssignment(1, 1, 0, 1, 0, 1, 0, 0))
        /\ ~AllSatisfied(ChainAssignment(1, 1, 0, 1, 0, 1, 1, 0))
        /\ ~AllSatisfied(ChainAssignment(1, 1, 0, 1, 0, 0, 0, 0))

C2_Witness ==
    /\ Compiled /\ IsChain
    /\ Len(constraints) = 5
    /\ AllSatisfied(ChainAssignment(1, 1, 0, 1, 0, 1, 0, 0))

\* C3: for a node with no incoming edges the emitted constraints are
\* satisfied by a binary pair (x_v, a_v) iff a_v = x_v.
C3_ZeroFanInEquivalence ==
    Compiled =>
        \A v \in Nodes : FanIn(v) = 0 =>
            \A x, a \in {0, 1} :
                (\A i \in ConstraintsOf(v) :
                    Satisfies(constraints[i], (XCol(v) :> x) @@ (ACol(v) :> a)))
                <=> (a = x)

C3_Witness ==
    /\ Compiled
    /\ \E v \in Nodes :
          /\ v > 1 /\ FanIn(v) = 0 /\ ConstraintsOf(v) # {}
          /\ \A i \in ConstraintsOf(v) :
                /\ Satisfies(constraints[i], (XCol(v) :> 1) @@ (ACol(v) :> 1))
                /\ ~Satisfies(constraints[i], (XCol(v) :> 1) @@ (ACol(v) :> 0))

\* s = k * x_v - sum(incoming edge indicators), read off an emitted constraint
SOf(c, v, xe) == Lhs(c, DOMAIN c.coefs \ {ACol(v)}, xe)

\* C8 as stated: for k >= 1 and every binary assignment of x_v and the
\* incoming edge indicators, s lies in [0, k], and s = k exactly when
\* x_v = 1 and no incoming edge is selected.
C8_SRangeEveryAssignment ==
    Compiled =>
        \A v \in Nodes : FanIn(v) >= 1 =>
            \A xe \in XEAssignments(v) : \A i \in ConstraintsOf(v) :
                LET s == SOf(constraints[i], v, xe)
                IN  /\ s \in 0..FanIn(v)
                    /\ (s = FanIn(v)) <=> IsStart(v, xe)

\* C8 amended: s is the same in both constraints and lies in [-k, k]; it
\* lies in [0, k] exactly for the assignments with x_v = 1 or no incoming
\* edge selected, and s = k exactly when x_v = 1 and no incoming edge is
\* selected.
C8_SRangeConsistentAssignments ==
    Compiled =>
        \A v \in Nodes : FanIn(v) >= 1 =>
            /\ Cardinality(ConstraintsOf(v)) = 2
            /\ \A xe \in XEAssignments(v) : \A i \in ConstraintsOf(v) :
                  LET s == SOf(constraints[i], v, xe)
                  IN  /\ s = FanIn(v) * xe[XCol(v)] - NumSelectedIn(v, xe)
                      /\ s \in (-FanIn(v))..FanIn(v)
                      /\ (s >= 0) <=> ~Dangling(v, xe)
                      /\ (s = FanIn(v)) <=> IsStart(v, xe)

C8_Witness ==
    /\ Compiled
    /\ \E v \in Nodes : \E xe, ye \in XEAssignments(v) : \E i \in ConstraintsOf(v) :
          /\ FanIn(v) = 3
          /\ SOf(constraints[i], v, xe) = 3
          /\ SOf(constraints[i], v, ye) = -3

\* the coefficients {x_v: k, each incoming edge: -1, a_v: a}
ExpectedCoefs(v, a) ==
    [col \in LocalCols(v) |->
        IF col = XCol(v) THEN FanIn(v) ELSE IF col = ACol(v) THEN a ELSE -1]

\* C9: per node v with fan-in k the generator emits, for k = 0, exactly the
\* one constraint {x_v: 1, a_v: -1} = 0 and, for k >= 1, exactly the two
\* constraints {x_v: k, in-edges: -1, a_v: -1} <= k - 1 and
\* {x_v: k, in-edges: -1, a_v: -k} >= 0; every emitted constraint has a
\* coefficient, mentions only columns of one node and of its own incoming
\* edges, and there are (#nodes with k = 0) + 2 * (#nodes with k >= 1) of them.
C9_EmittedConstraints ==
    Compiled =>
        /\ Len(constraints) = Cardinality({v \in Nodes : FanIn(v) = 0})
                              + 2 * Cardinality({v \in Nodes : FanIn(v) >= 1})
        /\ \A v \in Nodes :
              IF FanIn(v) = 0
              THEN \E i \in DOMAIN constraints :
                      /\ ConstraintsOf(v) = {i}
                      /\ constraints[i] =
                            [coefs    |-> (XCol(v) :> 1) @@ (ACol(v) :> -1),
                             relation |-> "Equal",
                             value    |-> 0]
              ELSE \E i \in DOMAIN constraints :
                      /\ ConstraintsOf(v) = {i, i + 1}
                      /\ constraints[i] =
                            [coefs    |-> ExpectedCoefs(v, -1),
                             relation |-> "LessEqual",
                             value    |-> FanIn(v) - 1]
                      /\ constraints[i + 1] =
                            [coefs    |-> ExpectedCoefs(v, -FanIn(v)),
                             relation |-> "GreaterEqual",
                             value    |-> 0]
        /\ \A i \in DOMAIN constraints :
              /\ DOMAIN constraints[i].coefs # {}
              /\ \E v \in Nodes :
                    /\ i \in ConstraintsOf(v)
                    /\ DOMAIN constraints[i].coefs \subseteq LocalCols(v)

C9_Witness ==
    /\ Compiled
    /\ \E v, w \in Nodes : FanIn(v) = 0 /\ FanIn(w) = 3
    /\ Len(constraints) = 6

-----------------------------------------------------------------------------
(* Properties of the NodeSelection costs *)

LastApplied == applied'[Len(applied')]

\* one apply() has just run
Applying == Len(applied') = Len(applied) + 1

HasAttribute(v, self) == self.attribute \in DOMAIN attrs[v]

\* weight * node.attribute + constant * 1.0, in quarters
Contribution(v, self) ==
    self.weight.initial_value * attrs[v][self.attribute]
    + self.constant.initial_value * One

SelectedCols == {variables["NodeSelected"][v] : v \in Nodes}

\* the nodes in the iteration order of get_variables(NodeSelected)
Precedes(u, v) == variables["NodeSelected"][u] < variables["NodeSelected"][v]

Offending(self) == {v \in Nodes : ~HasAttribute(v, self)}

FirstOffending(self) ==
    CHOOSE v \in Offending(self) : \A u \in Offending(self) : u = v \/ Precedes(v, u)

\* C4: when apply runs on a graph where every node has the configured
\* attribute it completes, the coefficient of each node's NodeSelected column
\* has increased by exactly weight * attribute + constant * 1.0, and the
\* coefficient of every other column is unchanged.
C4_ApplyAddsContribution ==
    [][(Applying /\ Offending(LastApplied) = {}) =>
          /\ error' = "none"
          /\ DOMAIN objective' = DOMAIN objective
          /\ \A v \in Nodes :
                objective'[XCol(v)] = objective[XCol(v)] + Contribution(v, LastApplied)
          /\ \A col \in DOMAIN objective \ SelectedCols :
                objective'[col] = objective[col]]_vars

\* weight 2.0, feature 1.0, constant 0.5 on the chain: 2.5 on A, B and C
C4_Witness ==
    /\ IsChain
    /\ attrs = AllCosts(3)
    /\ applied = <<NodeSelection(4, "costs", 1)>>
    /\ error = "none"
    /\ \A v \in Nodes : objective[XCol(v)] = 10
    /\ \A col \in DOMAIN objective \ SelectedCols : objective[col] = 0

\* C5 as stated: when apply runs on a graph in which some node lacks the
\* configured attribute it fails with a KeyError and no objective
\* coefficient of any column has been changed by that apply.
C5_AtomicFailure ==
    [][(Applying /\ Offending(LastApplied) # {}) =>
          /\ error' = "KeyError"
          /\ objective' = objective]_vars

\* C5 amended: it fails with a KeyError, and no objective coefficient has
\* been changed by that apply except those of the NodeSelected columns of
\* the nodes that precede the first offending node in the iteration order;
\* in particular the failure is atomic when the first node is offending.
C5_FailureKeepsLaterColumns ==
    [][(Applying /\ Offending(LastApplied) # {}) =>
          LET f == FirstOffending(LastApplied)
          IN  /\ error' = "KeyError"
              /\ pc' = "aborted"
              /\ DOMAIN objective' = DOMAIN objective
              /\ \A col \in DOMAIN objective :
                    (\A v \in Nodes : col = XCol(v) => ~Precedes(v, f))
                    => objective'[col] = objective[col]
              /\ (\A v \in Nodes : ~Precedes(v, f)) => objective' = objective]_vars

C5_Witness ==
    /\ error = "KeyError"
    /\ Len(applied) = 1
    /\ LET self == applied[1]
       IN  /\ Offending(self) = {2}
           /\ numNodes = 3
           /\ objective[XCol(1)] # 0
           /\ objective[XCol(2)] = 0
           /\ objective[XCol(3)] = 0

\* C10: when apply fails because a node lacks the configured attribute, every
\* node that precedes the first offending node in the iteration order has
\* received both its weight * attribute and its constant contribution, and
\* the offending node and every later node have received neither.
C10_ProcessedSoFar ==
    [][(Applying /\ error' = "KeyError") =>
          /\ Offending(LastApplied) # {}
          /\ LET f == FirstOffending(LastApplied)
             IN  \A v \in Nodes :
                    objective'[XCol(v)] =
                        IF Precedes(v, f)
                        THEN objective[XCol(v)] + Contribution(v, LastApplied)
                        ELSE objective[XCol(v)]]_vars

C10_Witness ==
    /\ error = "KeyError"
    /\ Len(applied) = 2
    /\ numNodes = 3
    /\ LET self == applied[2]
       IN  /\ Offending(self) = {3}
           /\ Offending(applied[1]) = {}
           /\ \A v \in {1, 2} :
                 /\ Contribution(v, self) # 0
                 /\ objective[XCol(v)] =
                       Contribution(v, applied[1]) + Contribution(v, self)
           /\ objective[XCol(3)] = Contribution(3, applied[1])

ZeroObjective == [col \in DOMAIN objective |-> 0]

\* what a module contributes when it alone is applied to the registry
Alone(self) == NodeSelectionApply(ZeroObjective, variables, self).objective

\* C6: after two NodeSelection modules have been applied to the same
\* registry, the coefficient of every node's NodeSelected column is the sum
\* of what each module contributes when applied alone, and applying the two
\* in the other order gives the same objective.
C6_Additive ==
    (Len(applied) = 2 /\ error = "none") =>
        /\ \A v \in Nodes :
              objective[XCol(v)] = Alone(applied[1])[XCol(v)] + Alone(applied[2])[XCol(v)]
        /\ objective =
              NodeSelectionApply(Alone(applied[2]), variables, applied[1]).objective

C6_Witness ==
    /\ Len(applied) = 2 /\ error = "none"
    /\ numNodes = 3
    /\ applied[1] # applied[2]
    /\ applied[1].attribute # applied[2].attribute
    /\ \A v \in Nodes :
          /\ Alone(applied[1])[XCol(v)] # 0
          /\ Alone(applied[2])[XCol(v)] # 0
          /\ objective[XCol(v)] # Alone(applied[1])[XCol(v)]
          /\ objective[XCol(v)] # Alone(applied[2])[XCol(v)]

-----------------------------------------------------------------------------
(* Properties of the plot options *)

Called == call.fn # "none"

BothSupplied(a) ==
    \/ a.position_attribute # None /\ a.position_func # None
    \/ a.alpha_attribute # None /\ a.alpha_func # None
    \/ a.label_attribute # None /\ a.label_func # None

\* C7 as stated: when draw_track_graph is called with two mutually-exclusive
\* options both supplied, it fails with a ConfigurationError and returns no
\* figure.
C7_ConfigurationError ==
    (Called /\ BothSupplied(call.args)) =>
        error = "ConfigurationError" /\ figure = NoFigure

\* C7 amended: it fails with a RuntimeError and returns no figure.
C7_RuntimeError ==
    (Called /\ BothSupplied(call.args)) =>
        error = "RuntimeError" /\ figure = NoFigure

C7_Witness ==
    /\ Called
    /\ call.fn = "draw_track_graph"
    /\ call.args.position_attribute = None
    /\ call.args.alpha_attribute = None
    /\ call.args.label_attribute # None /\ call.args.label_func # None
    /\ error = "RuntimeError"
    /\ figure = NoFigure

=============================================================================
